---- MODULE Spec2Model ----
(***************************************************************************)
(* SVG to PDF converter: the coordination layer of svg_to_pdf.py (the CLI  *)
(* batch driver, the output-path resolver, the conversion invoker) and of  *)
(* svg_to_pdf_gui.py (the desktop front-end's _process_paths / _get_dpi).  *)
(*                                                                         *)
(* The filesystem is a pair of sets: the paths that are directories and    *)
(* the paths that are regular files.  A path is a sequence of names, a     *)
(* name is a record [stem, suffix] as pathlib splits it.  The rendering    *)
(* delegate (svglib / reportlab) is external: its outcome is a             *)
(* nondeterministic input of every conversion.                             *)
(***************************************************************************)
EXTENDS Integers, Sequences, FiniteSets, TLC

VARIABLES
    entry,            \* which entry point this run exercises
    inputs,           \* args.inputs / paths: the sequence of input paths
    output,           \* args.output / output_dir: a path, or None
    dpi,              \* args.dpi / dpi_var value
    dpi_numeric,      \* FALSE when the GUI's DPI field holds non-numeric text
    multiple_inputs,  \* the flag given to resolve_output_path
    dirs,             \* filesystem: the directories
    files,            \* filesystem: the regular files
    pc,               \* "start", "loop", "done"
    i,                \* index of the next input of the loop (1-based)
    exit_code,        \* main's local exit_code
    status,           \* how the run ended: see Statuses
    ret,              \* main's return value / resolve_output_path's result
    resolved,         \* history: [idx, path] per output path resolved
    calls,            \* history: one record per convert_svg_to_pdf call
    log               \* history: [kind, idx] per message or dialog

vars == <<entry, inputs, output, dpi, dpi_numeric, multiple_inputs, dirs, files,
          pc, i, exit_code, status, ret, resolved, calls, log>>

-----------------------------------------------------------------------------
(* Bounds and constants *)

MaxInputs == 3

DEFAULT_SVG_DPI == 96

None == <<[stem |-> "None", suffix |-> "None"]>>

N(stem, suffix) == [stem |-> stem, suffix |-> suffix]

Root == <<>>

DirIn == <<N("in", "")>>
DirIn2 == <<N("in2", "")>>
DirOut == <<N("out", "")>>

IconSvg == <<N("in", ""), N("icon", ".svg")>>
IconUpper == <<N("in2", ""), N("icon", ".SVG")>>
PhotoPng == <<N("in", ""), N("photo", ".png")>>
GoneSvg == <<N("in", ""), N("gone", ".svg")>>
GonePng == <<N("in", ""), N("gone", ".png")>>
DrawSvg == <<N("in", ""), N("draw", ".svg")>>

OutFile == <<N("out", ""), N("res", ".pdf")>>

\* A path as Tk hands it to the front-end when it contains spaces: wrapped in braces.
BraceOpen == N("{", "")
BraceClose == N("}", "")
Braced(p) == <<BraceOpen>> \o p \o <<BraceClose>>

InputPaths == {IconSvg, IconUpper, PhotoPng, GoneSvg, GonePng, DrawSvg}

ExistingInputs == {IconSvg, IconUpper, PhotoPng, DrawSvg}

RawPaths == InputPaths \cup {Braced(DrawSvg)}

OutputChoices == {None, DirOut, OutFile}

OutKinds == {"none", "file", "dir"}

DpiValues == {-5, 0, DEFAULT_SVG_DPI, 192}

DelegateOutcomes == {"ok", "parse_fail", "write_fail"}

Entries == {"main", "process_paths", "resolve_output_path", "convert_svg_to_pdf"}

Statuses == {"running", "returned", "SystemExit", "OSError", "ValueError",
             "blocked"}

-----------------------------------------------------------------------------
(* pathlib *)

Name(p) == p[Len(p)]

Parent(p) == IF Len(p) = 0 THEN Root ELSE SubSeq(p, 1, Len(p) - 1)

Prefixes(p) == {SubSeq(p, 1, k) : k \in 0..Len(p)}

Exists(p) == p \in dirs \/ p \in files

IsDir(p) == p \in dirs

Lower(s) == IF s = ".SVG" THEN ".svg" ELSE s

Suffix(p) == Name(p).suffix

Stem(p) == Name(p).stem

WithSuffix(p, s) == Append(Parent(p), N(Stem(p), s))

Join(d, stem, s) == Append(d, N(stem, s))

\* Path.mkdir(parents=True, exist_ok=True): fails when the path or one of its
\* ancestors is a regular file; otherwise every missing prefix becomes a directory.
MkdirFails(p) == \E q \in Prefixes(p) : q \in files

MkdirDirs(p) == IF MkdirFails(p) THEN dirs ELSE dirs \cup Prefixes(p)

NoPdf(F) == \A f \in F : Suffix(f) # ".pdf"

-----------------------------------------------------------------------------
(* svg_to_pdf.py: the output-path resolver and the conversion invoker *)

Returned(p) == [raised |-> FALSE, path |-> p]

Raised == [raised |-> TRUE, path |-> None]

\* resolve_output_path(input_path, output, multiple_inputs)
resolve_output_path(input_path, out, multi) ==
    IF out = None
    THEN Returned(WithSuffix(input_path, ".pdf"))
    ELSE IF IsDir(out) \/ (multi /\ Exists(out))
    THEN Returned(Join(out, Stem(input_path), ".pdf"))
    ELSE IF multi /\ ~IsDir(out)
    THEN Raised
    ELSE Returned(out)

\* scale = dpi / DEFAULT_SVG_DPI if dpi else 1.0, kept as the numerator over
\* DEFAULT_SVG_DPI (96 stands for 1.0).
ScaleNum(d) == IF d # 0 THEN d ELSE DEFAULT_SVG_DPI

\* renderPDF.drawToFile can only write into an existing directory, to a path that
\* is not itself a directory, and may still fail on its own (delegate = "write_fail").
WriteFails(output_path, delegate, D) ==
    \/ delegate = "write_fail"
    \/ Parent(output_path) \notin D
    \/ output_path \in D

\* svg2rlg raises or returns None on a missing or unparsable file.
ParseFails(input_path, delegate, F) ==
    \/ delegate = "parse_fail"
    \/ input_path \notin F

\* convert_svg_to_pdf(input_path, output_path, dpi) on the filesystem (D, F) with
\* the delegate's outcome: the delegate calls it made in order, whether it raised,
\* and the file it wrote.
convert_svg_to_pdf(input_path, output_path, d, delegate, D, F) ==
    IF ParseFails(input_path, delegate, F)
    THEN [raised |-> TRUE, events |-> <<"svg2rlg">>, wrote |-> FALSE, scale |-> 0]
    ELSE IF ScaleNum(d) <= 0
    THEN [raised |-> TRUE, events |-> <<"svg2rlg">>, wrote |-> FALSE, scale |-> ScaleNum(d)]
    ELSE IF WriteFails(output_path, delegate, D)
    THEN [raised |-> TRUE, events |-> <<"svg2rlg", "drawToFile">>, wrote |-> FALSE,
          scale |-> ScaleNum(d)]
    ELSE [raised |-> FALSE, events |-> <<"svg2rlg", "drawToFile">>, wrote |-> TRUE,
          scale |-> ScaleNum(d)]

Call(idx, input_path, output_path, d, c) ==
    [idx |-> idx, input |-> input_path, output |-> output_path, dpi |-> d,
     raised |-> c.raised, events |-> c.events, wrote |-> c.wrote, scale |-> c.scale]

Msg(kind, idx) == [kind |-> kind, idx |-> idx]

Res(idx, r) == [idx |-> idx, raised |-> r.raised, path |-> r.path]

-----------------------------------------------------------------------------
(* Initial states *)

SeqsUpTo(S, lo, hi) == UNION {[1..n -> S] : n \in lo..hi}

Init ==
    /\ entry \in Entries
    /\ inputs \in CASE entry = "main" -> SeqsUpTo(InputPaths, 1, MaxInputs)
                    [] entry = "process_paths" -> SeqsUpTo(RawPaths, 0, MaxInputs)
                    [] OTHER -> SeqsUpTo(InputPaths, 1, 1)
    /\ output \in CASE entry = "convert_svg_to_pdf" ->
                         {DirOut, OutFile, WithSuffix(inputs[1], ".pdf")}
                    [] OTHER -> OutputChoices
    /\ dpi \in DpiValues
    /\ dpi_numeric \in IF entry = "process_paths" THEN BOOLEAN ELSE {TRUE}
    /\ multiple_inputs \in IF entry = "resolve_output_path" THEN BOOLEAN ELSE {FALSE}
    /\ \E k \in OutKinds :
          /\ dirs = {Root, DirIn, DirIn2} \cup (IF k = "dir" THEN {DirOut} ELSE {})
          /\ files = ExistingInputs \cup (IF k = "file" THEN {DirOut} ELSE {})
    /\ pc = "start"
    /\ i = 0
    /\ exit_code = -1
    /\ status = "running"
    /\ ret = -1
    /\ resolved = <<>>
    /\ calls = <<>>
    /\ log = <<>>

-----------------------------------------------------------------------------
(* svg_to_pdf.py: main, the CLI batch driver *)

\* a DPI check that lets zero through
dpi_rejected_negative_only(d) == d < 0

\* if args.dpi <= 0
dpi_rejected(d) == d <= 0

\* args.output.exists() and not args.output.is_dir(), for args.output and multiple_inputs
output_rejected(out, multi) ==
    out # None /\ multi /\ Exists(out) /\ ~IsDir(out)

\* an extension test that forgets to lower-case the suffix
IsSvgCaseSensitive(p) == Suffix(p) = ".svg"

\* input_path.suffix.lower() != ".svg"
IsSvg(p) == Lower(Suffix(p)) = ".svg"

\* an exit code that a later success resets
ExitCodeOfLast(code, raised) == IF raised THEN 1 ELSE 0

\* exit_code after one conversion: set to 1 by the except branch, else left alone
ExitCodeAfter(code, raised) == IF raised THEN 1 ELSE code

Exit(how) ==
    /\ status' = how
    /\ pc' = "done"

\* lines 93-105: the checks and the directory creation before the loop
MainValidate ==
    /\ entry = "main"
    /\ pc = "start"
    /\ multiple_inputs' = (Len(inputs) > 1)
    /\ IF dpi_rejected(dpi) \/ output_rejected(output, multiple_inputs')
       THEN /\ Exit("SystemExit")
            /\ UNCHANGED <<dirs, i, exit_code>>
       ELSE IF output # None /\ multiple_inputs' /\ MkdirFails(output)
       THEN /\ Exit("OSError")
            /\ UNCHANGED <<dirs, i, exit_code>>
       ELSE /\ dirs' = IF output # None /\ multiple_inputs'
                       THEN MkdirDirs(output) ELSE dirs
            /\ exit_code' = 0
            /\ i' = 1
            /\ pc' = "loop"
            /\ UNCHANGED status
    /\ UNCHANGED <<entry, inputs, output, dpi, dpi_numeric, files, ret, resolved,
                   calls, log>>

\* a missing input that is skipped like a non-SVG one
MainMissingContinues(idx) ==
    /\ log' = Append(log, Msg("missing", idx))
    /\ i' = idx + 1
    /\ UNCHANGED <<pc, status, ret, exit_code, dirs, files, resolved, calls>>

\* lines 108-110: a missing input ends the run
MainMissing(idx) ==
    /\ log' = Append(log, Msg("missing", idx))
    /\ ret' = 1
    /\ Exit("returned")
    /\ UNCHANGED <<i, exit_code, dirs, files, resolved, calls>>

\* lines 111-113: a non-SVG input is skipped
MainSkip(idx) ==
    /\ log' = Append(log, Msg("skip", idx))
    /\ i' = idx + 1
    /\ UNCHANGED <<pc, status, ret, exit_code, dirs, files, resolved, calls>>

\* lines 115-128: resolve the output path, create its parent, convert
MainConvert(idx) ==
    LET input_path == inputs[idx]
        r == resolve_output_path(input_path, output, multiple_inputs)
    IN  /\ resolved' = Append(resolved, Res(idx, r))
        /\ IF r.raised
           THEN /\ Exit("SystemExit")
                /\ UNCHANGED <<i, exit_code, ret, dirs, files, calls, log>>
           ELSE IF MkdirFails(Parent(r.path))
           THEN /\ Exit("OSError")
                /\ UNCHANGED <<i, exit_code, ret, dirs, files, calls, log>>
           ELSE \E delegate \in DelegateOutcomes :
                LET D == MkdirDirs(Parent(r.path))
                    c == convert_svg_to_pdf(input_path, r.path, dpi, delegate, D, files)
                IN  /\ dirs' = D
                    /\ files' = IF c.wrote THEN files \cup {r.path} ELSE files
                    /\ calls' = Append(calls, Call(idx, input_path, r.path, dpi, c))
                    /\ exit_code' = ExitCodeAfter(exit_code, c.raised)
                    /\ log' = Append(log, Msg(IF c.raised THEN "failed" ELSE "converted",
                                              idx))
                    /\ i' = idx + 1
                    /\ UNCHANGED <<pc, status, ret>>

\* lines 107-128: one iteration of the loop
MainLoop ==
    /\ entry = "main"
    /\ pc = "loop"
    /\ i <= Len(inputs)
    /\ IF ~Exists(inputs[i]) THEN MainMissing(i)
       ELSE IF ~IsSvg(inputs[i]) THEN MainSkip(i)
       ELSE MainConvert(i)
    /\ UNCHANGED <<entry, inputs, output, dpi, dpi_numeric, multiple_inputs>>

\* line 130
MainReturn ==
    /\ entry = "main"
    /\ pc = "loop"
    /\ i > Len(inputs)
    /\ ret' = exit_code
    /\ Exit("returned")
    /\ UNCHANGED <<entry, inputs, output, dpi, dpi_numeric, multiple_inputs, dirs,
                   files, i, exit_code, resolved, calls, log>>

\* The process exit status: main's return value (line 134); SystemExit with a
\* message and an uncaught exception both end the interpreter with status 1.
ExitStatus == IF status = "returned" THEN ret ELSE 1

-----------------------------------------------------------------------------
(* svg_to_pdf_gui.py: SvgToPdfApp._process_paths and _get_dpi *)

NoDpi == -1

\* _get_dpi: the DPI, or None (here NoDpi) after a validation dialog
get_dpi(numeric, d) == IF ~numeric THEN NoDpi ELSE IF d <= 0 THEN NoDpi ELSE d

\* lines 145-149: strip the braces around a dropped path
cleaned_path(raw_path) ==
    IF Len(raw_path) >= 2 /\ raw_path[1] = BraceOpen /\ raw_path[Len(raw_path)] = BraceClose
    THEN SubSeq(raw_path, 2, Len(raw_path) - 1)
    ELSE raw_path

\* a destination that ignores the output directory
gui_output_path_sibling(input_path, output_dir) == WithSuffix(input_path, ".pdf")

\* lines 157-159: the destination of one file
gui_output_path(input_path, output_dir) ==
    IF output_dir # None
    THEN Join(output_dir, Stem(input_path), ".pdf")
    ELSE WithSuffix(input_path, ".pdf")

\* lines 128-142: empty batch, DPI validation, output directory creation
ProcessPathsStart ==
    /\ entry = "process_paths"
    /\ pc = "start"
    /\ IF Len(inputs) = 0
       THEN /\ Exit("returned")
            /\ UNCHANGED <<dirs, i, log>>
       ELSE IF get_dpi(dpi_numeric, dpi) = NoDpi
       THEN /\ log' = Append(log, Msg("invalid_dpi", 0))
            /\ Exit("blocked")
            /\ UNCHANGED <<dirs, i>>
       ELSE IF output # None /\ MkdirFails(output)
       THEN /\ log' = Append(log, Msg("output_error", 0))
            /\ Exit("blocked")
            /\ UNCHANGED <<dirs, i>>
       ELSE /\ dirs' = IF output # None THEN MkdirDirs(output) ELSE dirs
            /\ i' = 1
            /\ pc' = "loop"
            /\ UNCHANGED <<status, log>>
    /\ UNCHANGED <<entry, inputs, output, dpi, dpi_numeric, multiple_inputs, files,
                   exit_code, ret, resolved, calls>>

\* a missing file that ends the batch, as in the CLI
ProcessMissingAborts(idx) ==
    /\ log' = Append(log, Msg("missing", idx))
    /\ Exit("returned")
    /\ UNCHANGED <<i, dirs, files, resolved, calls>>

\* lines 150-152: a missing file is logged and skipped
ProcessMissing(idx) ==
    /\ log' = Append(log, Msg("missing", idx))
    /\ i' = idx + 1
    /\ UNCHANGED <<pc, status, dirs, files, resolved, calls>>

\* lines 153-155: a non-SVG file is logged and skipped
ProcessSkip(idx) ==
    /\ log' = Append(log, Msg("skip", idx))
    /\ i' = idx + 1
    /\ UNCHANGED <<pc, status, dirs, files, resolved, calls>>

\* lines 157-169: destination, parent directory, conversion, dialog or log line
ProcessConvert(idx) ==
    LET input_path == cleaned_path(inputs[idx])
        output_path == gui_output_path(input_path, output)
    IN  /\ resolved' = Append(resolved, Res(idx, Returned(output_path)))
        /\ i' = idx + 1
        /\ UNCHANGED <<pc, status>>
        /\ IF MkdirFails(Parent(output_path))
           THEN /\ log' = Append(log, Msg("failed", idx))
                /\ UNCHANGED <<dirs, files, calls>>
           ELSE \E delegate \in DelegateOutcomes :
                LET D == MkdirDirs(Parent(output_path))
                    c == convert_svg_to_pdf(input_path, output_path,
                                            get_dpi(dpi_numeric, dpi), delegate, D, files)
                IN  /\ dirs' = D
                    /\ files' = IF c.wrote THEN files \cup {output_path} ELSE files
                    /\ calls' = Append(calls, Call(idx, input_path, output_path,
                                                   get_dpi(dpi_numeric, dpi), c))
                    /\ log' = Append(log, Msg(IF c.raised THEN "failed" ELSE "converted",
                                              idx))

\* lines 144-169: one iteration of the loop
ProcessPathsLoop ==
    /\ entry = "process_paths"
    /\ pc = "loop"
    /\ i <= Len(inputs)
    /\ IF ~Exists(cleaned_path(inputs[i])) THEN ProcessMissing(i)
       ELSE IF ~IsSvg(cleaned_path(inputs[i])) THEN ProcessSkip(i)
       ELSE ProcessConvert(i)
    /\ UNCHANGED <<entry, inputs, output, dpi, dpi_numeric, multiple_inputs,
                   exit_code, ret>>

\* the loop is exhausted and _process_paths returns
ProcessPathsReturn ==
    /\ entry = "process_paths"
    /\ pc = "loop"
    /\ i > Len(inputs)
    /\ Exit("returned")
    /\ UNCHANGED <<entry, inputs, output, dpi, dpi_numeric, multiple_inputs, dirs,
                   files, i, exit_code, ret, resolved, calls, log>>

-----------------------------------------------------------------------------
(* Direct calls of the two library functions *)

CallResolve ==
    /\ entry = "resolve_output_path"
    /\ pc = "start"
    /\ LET r == resolve_output_path(inputs[1], output, multiple_inputs)
       IN  /\ resolved' = <<Res(1, r)>>
           /\ Exit(IF r.raised THEN "SystemExit" ELSE "returned")
    /\ UNCHANGED <<entry, inputs, output, dpi, dpi_numeric, multiple_inputs, dirs,
                   files, i, exit_code, ret, calls, log>>

CallConvert ==
    /\ entry = "convert_svg_to_pdf"
    /\ pc = "start"
    /\ \E delegate \in DelegateOutcomes :
          LET c == convert_svg_to_pdf(inputs[1], output, dpi, delegate, dirs, files)
          IN  /\ calls' = <<Call(1, inputs[1], output, dpi, c)>>
              /\ files' = IF c.wrote THEN files \cup {output} ELSE files
              /\ Exit(IF c.raised THEN "ValueError" ELSE "returned")
    /\ UNCHANGED <<entry, inputs, output, dpi, dpi_numeric, multiple_inputs, dirs,
                   i, exit_code, ret, resolved, log>>

-----------------------------------------------------------------------------

Next ==
    \/ MainValidate
    \/ MainLoop
    \/ MainReturn
    \/ ProcessPathsStart
    \/ ProcessPathsLoop
    \/ ProcessPathsReturn
    \/ CallResolve
    \/ CallConvert

Spec == Init /\ [][Next]_vars

-----------------------------------------------------------------------------
(* Properties *)

Range(seq) == {seq[k] : k \in 1..Len(seq)}

Idx(seq) == {seq[k].idx : k \in 1..Len(seq)}

IsMissing(p) == p \notin ExistingInputs

AllInputsExist == \A k \in 1..Len(inputs) : ~IsMissing(inputs[k])

NoCallFailed == \A c \in Range(calls) : ~c.raised

HasSvgExtension(p) == Suffix(p) \in {".svg", ".SVG"}

MainDone == entry = "main" /\ pc = "done"

\* C1 (as claimed): with a valid DPI, the exit status of the CLI run is 0 exactly
\* when every listed input exists and every invoked conversion succeeded, and 1
\* when some input is missing or some invoked conversion failed.
C1_ExitCodeIffAllSucceeded ==
    (MainDone /\ dpi > 0) =>
        /\ ExitStatus = 0 <=> (AllInputsExist /\ NoCallFailed)
        /\ ~(AllInputsExist /\ NoCallFailed) => ExitStatus = 1

\* C1 (amended): with a valid DPI, the exit status is 0 exactly when main returns
\* normally (no usage error, no failed directory creation), every listed input
\* exists and every invoked conversion succeeded; in every other case it is 1.
C1_ExitCodeIffReturnedAllSucceeded ==
    (MainDone /\ dpi > 0) =>
        /\ ExitStatus \in {0, 1}
        /\ ExitStatus = 0 <=> (status = "returned" /\ AllInputsExist /\ NoCallFailed)

\* C1 witness: a run that skipped a non-SVG input, converted two inputs and returned 0.
C1_Witness ==
    /\ MainDone /\ status = "returned" /\ ret = 0
    /\ Len(calls) = 2
    /\ \E m \in Range(log) : m.kind = "skip"

\* C2: once the loop reaches a missing input, no input at or after that position is
\* resolved or converted; when the first input is missing the run ends with exit
\* status 1, no converter call, no resolved path and no output file.
C2_MissingInputAborts ==
    entry = "main" =>
        /\ \A k \in 1..Len(inputs) :
              IsMissing(inputs[k]) =>
                  /\ i <= k
                  /\ \A n \in Idx(resolved) \cup Idx(calls) : n < k
        /\ (pc = "done" /\ IsMissing(inputs[1])) =>
              /\ ExitStatus = 1
              /\ calls = <<>>
              /\ resolved = <<>>
              /\ NoPdf(files)

\* C2 witness: the first of three inputs is missing, the later ones exist, and the
\* run has returned.
C2_Witness ==
    /\ MainDone /\ status = "returned"
    /\ Len(inputs) = 3
    /\ IsMissing(inputs[1]) /\ inputs[2] = IconSvg /\ inputs[3] = DrawSvg

UsageError ==
    \/ dpi <= 0
    \/ Len(inputs) > 1 /\ output # None /\ output \in files

\* C3: a usage error (DPI <= 0, or several inputs with an output that exists and is
\* not a directory) ends main at once with SystemExit: no converter call, no
\* resolved path, no directory and no file is created.
C3_UsageErrorBeforeAnyConversion ==
    [][(entry = "main" /\ pc = "start" /\ UsageError) =>
          /\ status' = "SystemExit"
          /\ pc' = "done"
          /\ calls' = <<>>
          /\ resolved' = <<>>
          /\ UNCHANGED <<dirs, files>>]_vars

\* C3 witness: a run with a valid DPI and two inputs that ended with the usage error.
C3_Witness ==
    /\ MainDone /\ status = "SystemExit"
    /\ dpi > 0 /\ Len(inputs) = 2
    /\ output \in files

PairwiseDistinct(seq) ==
    \A a, b \in 1..Len(seq) : a # b => seq[a] # seq[b]

\* C4 (as claimed, in its most favourable case: an explicit output and pairwise
\* distinct input paths): with more than one input, the resolved output paths are
\* pairwise distinct, lie inside the output directory and are named <stem>.pdf.
C4_ResolvedPathsDistinct ==
    (entry = "main" /\ Len(inputs) > 1 /\ output # None /\ PairwiseDistinct(inputs)) =>
        /\ \A a, b \in 1..Len(resolved) :
              a # b => resolved[a].path # resolved[b].path
        /\ \A a \in 1..Len(resolved) :
              /\ Parent(resolved[a].path) = output
              /\ Name(resolved[a].path) = N(Stem(inputs[resolved[a].idx]), ".pdf")

\* C5 (as claimed): resolve_output_path with multiple_inputs true and an output that
\* exists but is not a directory fails with the usage error instead of returning.
C5_MultipleInputsFileOutputRaises ==
    (entry = "resolve_output_path" /\ pc = "done" /\ multiple_inputs
        /\ output \in files) =>
        resolved[1].raised

\* C6 (as claimed, in its weakest reading: the rendering attempt is the drawToFile
\* call): convert_svg_to_pdf with a non-positive DPI, zero included, raises before
\* the PDF is rendered and writes no output file.
C6_NonPositiveDpiFailsFast ==
    (entry = "convert_svg_to_pdf" /\ pc = "done" /\ dpi <= 0) =>
        /\ calls[1].raised
        /\ "drawToFile" \notin Range(calls[1].events)
        /\ ~calls[1].wrote

Convertible(j) == ~IsMissing(inputs[j]) /\ HasSvgExtension(inputs[j])

NoMissingUpTo(j) == \A k \in 1..j : ~IsMissing(inputs[k])

CallsOf(j) == {n \in 1..Len(calls) : calls[n].idx = j}

\* C7 (as claimed): when the CLI run skips an existing non-SVG input, every other
\* SVG input of the batch is still converted.
C7_SkipThenEveryOtherSvgConverted ==
    (MainDone /\ status = "returned") =>
        \A k \in 1..Len(inputs) :
            Msg("skip", k) \in Range(log) =>
                \A j \in (1..Len(inputs)) \ {k} :
                    Convertible(j) => CallsOf(j) # {}

\* C7 (amended): an existing input whose extension is not .svg (case-insensitive)
\* is skipped: the step resolves nothing, calls no converter, creates no file or
\* directory, leaves the exit code alone and moves to the next input; and a run
\* that returns has handed to the converter, exactly once, every existing SVG input
\* that no missing input precedes, and no other input.
C7_NonSvgSkippedOthersConverted ==
    /\ [][(entry = "main" /\ pc = "loop" /\ i <= Len(inputs)
              /\ ~IsMissing(inputs[i]) /\ ~HasSvgExtension(inputs[i])) =>
             /\ i' = i + 1
             /\ pc' = "loop"
             /\ UNCHANGED <<calls, resolved, dirs, files, exit_code, status>>]_vars
    /\ [](entry = "main" =>
             /\ \A j \in 1..Len(inputs) :
                   ~HasSvgExtension(inputs[j]) =>
                       j \notin Idx(calls) \cup Idx(resolved)
             /\ (pc = "done" /\ status = "returned") =>
                   \A j \in 1..Len(inputs) :
                       IF Convertible(j) /\ NoMissingUpTo(j)
                       THEN Cardinality(CallsOf(j)) = 1
                       ELSE CallsOf(j) = {})

\* C7 witness: icon.svg, photo.png, icon.SVG: the first and the third were
\* converted, the second was skipped, the run returned 0.
C7_Witness ==
    /\ MainDone /\ status = "returned" /\ ret = 0
    /\ inputs = <<IconSvg, PhotoPng, IconUpper>>
    /\ Idx(calls) = {1, 3}
    /\ Msg("skip", 2) \in Range(log)

\* C8 (as claimed): after a failed conversion every later input that exists and is
\* an SVG is still converted exactly once.
C8_FailureThenEveryLaterConverted ==
    MainDone =>
        \A n \in 1..Len(calls) :
            calls[n].raised =>
                \A j \in (calls[n].idx + 1)..Len(inputs) :
                    Convertible(j) => Cardinality(CallsOf(j)) = 1

\* C8 (amended): a failed conversion sets the exit code to 1 and the loop moves to
\* the next input; the exit code never goes back from 1; converter calls happen in
\* input order, at most one per input; and after a failed conversion every later
\* input up to the first missing one is examined and, if it exists and is an SVG,
\* converted exactly once.
C8_FailureContinuesInOrder ==
    /\ [][(entry = "main" /\ pc = "loop") =>
             /\ exit_code = 1 => exit_code' = 1
             /\ i' \in {i, i + 1}
             /\ Len(calls') > Len(calls) =>
                   /\ calls' = Append(calls, calls'[Len(calls')])
                   /\ calls'[Len(calls')].idx = i
                   /\ i' = i + 1
                   /\ pc' = "loop"
                   /\ calls'[Len(calls')].raised => exit_code' = 1]_vars
    /\ [](entry = "main" =>
             /\ \A a, b \in 1..Len(calls) : a < b => calls[a].idx < calls[b].idx
             /\ (pc = "done" /\ ~NoCallFailed) => ExitStatus = 1
             /\ (pc = "done" /\ status = "returned") =>
                   \A n \in 1..Len(calls) :
                       calls[n].raised =>
                           \A j \in (calls[n].idx + 1)..Len(inputs) :
                               (Convertible(j) /\ NoMissingUpTo(j)) =>
                                   Cardinality(CallsOf(j)) = 1)

\* C8 witness: the first conversion failed, the second and third succeeded, and
\* the run returned 1.
C8_Witness ==
    /\ MainDone /\ status = "returned" /\ ret = 1
    /\ Len(calls) = 3
    /\ calls[1].raised /\ ~calls[2].raised /\ ~calls[3].raised

GuiBlocked ==
    \/ ~dpi_numeric
    \/ dpi <= 0
    \/ output # None /\ \E q \in Prefixes(output) : q \in files

\* the k-th path of a dropped batch, without the braces Tk may wrap it in
Dropped(k) ==
    IF inputs[k][1] = BraceOpen THEN SubSeq(inputs[k], 2, Len(inputs[k]) - 1)
    ELSE inputs[k]

GuiConvertible(k) == ~IsMissing(Dropped(k)) /\ HasSvgExtension(Dropped(k))

ExpectedKind(k) ==
    IF IsMissing(Dropped(k)) THEN {"missing"}
    ELSE IF ~HasSvgExtension(Dropped(k)) THEN {"skip"}
    ELSE {"failed", "converted"}

\* C9: in the desktop front-end no file aborts the batch: with a valid DPI and a
\* usable output directory every path is processed in order (a missing or non-SVG
\* one is logged and skipped, an existing SVG is converted once and its failure
\* reported for that file only); an invalid DPI or a failed creation of the output
\* directory, and nothing else, prevents every conversion of a non-empty batch.
C9_GuiBatchNeverAborted ==
    (entry = "process_paths" /\ Len(inputs) > 0) =>
        /\ GuiBlocked => (calls = <<>> /\ resolved = <<>> /\ pc # "loop")
        /\ pc = "done" => (status = "blocked" <=> GuiBlocked)
        /\ (~GuiBlocked /\ pc # "start") =>
              /\ Len(log) = i - 1
              /\ \A k \in 1..Len(log) :
                    /\ log[k].idx = k
                    /\ log[k].kind \in ExpectedKind(k)
                    /\ GuiConvertible(k) <=> Cardinality(CallsOf(k)) = 1
                    /\ ~GuiConvertible(k) => CallsOf(k) = {}
                    /\ \A n \in CallsOf(k) :
                          log[k].kind = "failed" <=> calls[n].raised
              /\ pc = "done" => (i = Len(inputs) + 1 /\ status = "returned")

\* C9 witness: a batch of three paths, the first missing, the second an SVG whose
\* conversion failed, the third an SVG that was converted, processed to the end.
C9_Witness ==
    /\ entry = "process_paths" /\ pc = "done" /\ status = "returned"
    /\ Len(inputs) = 3
    /\ IsMissing(Dropped(1))
    /\ inputs[3] = Braced(DrawSvg)
    /\ Len(calls) = 2
    /\ calls[1].raised /\ ~calls[2].raised

\* C10: every destination the desktop front-end uses equals what
\* resolve_output_path returns for that input, the output directory (or None) and
\* multiple_inputs = (the batch has more than one path), on the filesystem as it is
\* when the file is processed.
C10_GuiDestinationIsResolverPath ==
    [][(entry = "process_paths" /\ Len(resolved') > Len(resolved)) =>
          LET r == resolve_output_path(Dropped(i), output, Len(inputs) > 1)
              used == resolved'[Len(resolved')]
          IN  /\ ~r.raised
              /\ used.idx = i
              /\ used.path = r.path
              /\ Len(calls') > Len(calls) => calls'[Len(calls')].output = r.path]_vars

\* C10 witness: a batch of two paths with an output directory, one file converted
\* into it.
C10_Witness ==
    /\ entry = "process_paths" /\ pc = "done"
    /\ Len(inputs) = 2 /\ output = DirOut
    /\ \E c \in Range(calls) :
          ~c.raised /\ c.output = Join(DirOut, "icon", ".pdf")

====
